---- MODULE Spec2Model ----
(***************************************************************************)
(* The orchestration gateway of src/client/src/App.jsx (lines 351-525):    *)
(* WebSocket sessions buffering landmark batches, the correlation registry *)
(* waitingClients, the Redis-backed aggregation barrier and the result /   *)
(* dead-letter consumers.                                                  *)
(*                                                                         *)
(* Scheduling.  Node.js runs every callback to its next await without      *)
(* interruption.  The two async handlers suspend only on Redis commands,   *)
(* which node-redis sends over one connection and answers in the order     *)
(* they were issued: the suspended continuations therefore form one FIFO,  *)
(* redisQueue, and a command takes effect in the store in the step that    *)
(* resumes its continuation.                                               *)
(***************************************************************************)
EXTENDS Integers, Sequences, FiniteSets, TLC

VARIABLES
    readyState,       \* ws.readyState of each connection: "NONE" before it is accepted
    landmarkSequences,\* ws.landmarkSequences: a reference into arrays
    arrays,           \* the heap of JS arrays holding landmark batches
    received,         \* the frames each connection has delivered to ws.on('message'), in order
    sent,             \* the frames written to each connection by ws.send, in order
    waitingClients,   \* Map correlationId -> ws
    issued,           \* uuidv4(): issued[i] is the connection whose handler drew identity i
    store,            \* Redis: key job:<id> -> hash of fields
    ttl,              \* Redis: the keys that carry an expiry
    redisUp,          \* whether the Redis connection still answers commands
    redisQueue,       \* continuations suspended on a Redis command, oldest first
    channelUp,        \* whether amqpChannel is open: publish and ack throw on a closed channel
    bus,              \* messages published to JOBS_EXCHANGE, in order
    deliveryTag,      \* the channel's delivery tag of the last consumed message
    lastDelivery,     \* the last message handed to a consumer callback
    ackCount,         \* amqpChannel.ack calls per delivery tag
    uncaught,         \* exceptions that escaped a consumer callback
    written,          \* the fields each recognition worker has written, in order, per job
    console,          \* the last line written to the console
    events,           \* external events so far (frames, bus messages, worker writes, expiries)
    \* The browser client (lines 41-348)
    mounted,          \* the component is mounted: the cleanup of the WebSocket effect has not run
    wsRef,            \* readyState of wsRef.current
    retryTimers,      \* pending setTimeout(connectWebSocket, 3000) timers
    attempts,         \* new WebSocket(...) calls so far
    status,           \* React state status
    notification,     \* React state notification
    detectedTone,     \* React state detectedTone
    subtitleText,     \* React state subtitleText
    isPlayingAudio,   \* React state isPlayingAudio
    subtitleTimeout,  \* subtitleTimeoutRef.current holds a pending timer
    isRecording,      \* recordingStateRef.current.isRecording
    mode,             \* recordingStateRef.current.mode
    uiMode,           \* React state uiMode
    startTimeout,     \* recordingStateRef.current.startTimeout holds a pending timer
    stopTimeout,      \* recordingStateRef.current.stopTimeout holds a pending timer
    recordingTone,    \* recordingStateRef.current.tone
    sequenceLength,   \* sequenceRef.current.length
    clientSent,       \* the frames the client has written with wsRef.current.send, in order
    lastHandler,      \* the client callback that ran last
    lastData          \* data of the last onmessage: JSON.parse(event.data)

vars == <<readyState, landmarkSequences, arrays, received, sent, waitingClients, issued,
          store, ttl, redisUp, redisQueue, bus, deliveryTag, lastDelivery, ackCount,
          uncaught, written, console, events, channelUp,
          mounted, wsRef, retryTimers, attempts, status, notification, detectedTone,
          subtitleText, isPlayingAudio, subtitleTimeout, isRecording, mode, uiMode,
          startTimeout, stopTimeout, recordingTone, sequenceLength, clientSent, lastHandler,
          lastData>>

clientVars == <<mounted, wsRef, retryTimers, attempts, status, notification, detectedTone,
                subtitleText, isPlayingAudio, subtitleTimeout, isRecording, mode, uiMode,
                startTimeout, stopTimeout, recordingTone, sequenceLength, clientSent, lastHandler,
                lastData>>

gatewayVars == <<readyState, landmarkSequences, arrays, received, sent, waitingClients, issued,
                 store, ttl, redisUp, redisQueue, bus, deliveryTag, lastDelivery, ackCount,
                 uncaught, written, console, events, channelUp>>

---------------------------------------------------------------------------
(* Bounds and input sets *)

MaxGatewayEvents == 4
MaxBarrierEvents == 6
MaxDeliveryEvents == 5
MaxConsumerEvents == 5
MaxClientFrames == 2
MaxAttempts == 2

Sessions == {"ws1", "ws2"}
Batches == {"b1", "b2"}
Undefined == "undefined"
FrameTones == {"Formal", Undefined}
StrayId == 0
NoArray == 0
NoSession == "none"

(* Configuration constants of the gateway *)
JOBS_EXCHANGE == "aurasign_pipeline"
NOTIFICATION_QUEUE == "aggregator_notifications_to_nodejs"
RESULTS_QUEUE == "aurasign_results_to_nodejs"
DEAD_LETTER_QUEUE == "aurasign_tts_dead_letter"

---------------------------------------------------------------------------
(* JS Map / Redis hash helpers: finite maps as functions with a growing domain *)

EmptyMap == << >>

MapHas(m, k) == k \in DOMAIN m

MapGet(m, k) == IF k \in DOMAIN m THEN m[k] ELSE Undefined

MapSet(m, k, v) == [x \in DOMAIN m \cup {k} |-> IF x = k THEN v ELSE m[x]]

MapDelete_Keep(m, k) == m

MapDelete(m, k) == [x \in DOMAIN m \ {k} |-> m[x]]

(* Redis commands on the hash stored under a key *)
(* `job:${correlationId}` *)
RedisKey(correlationId) == <<"job", correlationId>>

HGetAll(st, key) == IF key \in DOMAIN st THEN st[key] ELSE EmptyMap

HSet(st, key, field, value) == MapSet(st, key, MapSet(HGetAll(st, key), field, value))

Del(st, key) == MapDelete(st, key)

Expire(t, st, key) == IF key \in DOMAIN st THEN t \cup {key} ELSE t

OrCasual_Keep(tone) == tone

(* data.tone || 'Casual' and jobParts.user_tone || 'Casual' *)
OrCasual(tone) == IF tone = Undefined THEN "Casual" ELSE tone

---------------------------------------------------------------------------
(* Frames and messages *)

(* A JSON object on the client connection, by the fields the client reads *)
Frame(audioData, sentence, conversationTone, fallbackText, error) ==
    [audioData |-> audioData, sentence |-> sentence, conversationTone |-> conversationTone,
     fallbackText |-> fallbackText, error |-> error]

ErrorFrame_Empty == Frame(Undefined, Undefined, Undefined, Undefined, Undefined)

(* JSON.stringify({ error: 'An internal error occurred.' }) *)
ErrorFrame == Frame(Undefined, Undefined, Undefined, Undefined, "An internal error occurred.")

FallbackText_Unquoted(sentence) == "Audio unavailable. Translation: " \o sentence

FallbackText(sentence) == "Audio unavailable. Translation: \"" \o sentence \o "\""

FallbackFrame(failedJob) ==
    Frame(Undefined, Undefined, "Error", FallbackText(failedJob.sentence), Undefined)

(* Message contents arriving on the result and dead-letter queues (JSON text) *)
ResultContents == {"{\"audioData\":\"UklGRg==\",\"sentence\":\"hello\"}"}
DeadLetterContents == {"{\"sentence\":\"hello\"}", "{}", "<html>"}

(* JSON.parse of a message content: ok is FALSE where JSON.parse throws *)
JSONParse(text) ==
    CASE text = "{\"audioData\":\"UklGRg==\",\"sentence\":\"hello\"}" ->
            [ok |-> TRUE, audioData |-> "UklGRg==", sentence |-> "hello"]
      [] text = "{\"sentence\":\"hello\"}" ->
            [ok |-> TRUE, audioData |-> Undefined, sentence |-> "hello"]
      [] text = "{}" ->
            [ok |-> TRUE, audioData |-> Undefined, sentence |-> Undefined]
      [] OTHER ->
            [ok |-> FALSE, audioData |-> Undefined, sentence |-> Undefined]

(* What the client reads from a content passed through verbatim by client.send *)
WireFrame(text) ==
    Frame(JSONParse(text).audioData, JSONParse(text).sentence, Undefined, Undefined, Undefined)

(* Inbound client frames *)
SigningData(sequence) == [type |-> "signing_data", sequence |-> sequence, tone |-> Undefined]
EndOfSentence(tone) == [type |-> "end_of_sentence", sequence |-> Undefined, tone |-> tone]
Malformed == [type |-> "malformed", sequence |-> Undefined, tone |-> Undefined]

(* A message published to the exchange *)
Publication(routingKey, correlationId, replyTo, body) ==
    [exchange |-> JOBS_EXCHANGE, routingKey |-> routingKey, correlationId |-> correlationId,
     replyTo |-> replyTo, body |-> body]

JobBody(landmark_data, user_tone) ==
    [landmark_data |-> landmark_data, user_tone |-> user_tone,
     raw_gloss |-> Undefined, dominant_emotion |-> Undefined]

GeminiBody(raw_gloss, dominant_emotion, user_tone) ==
    [landmark_data |-> << >>, user_tone |-> user_tone,
     raw_gloss |-> raw_gloss, dominant_emotion |-> dominant_emotion]

(* A message handed to a consumer callback *)
Delivery(queue, correlationId, replyTo, content, tag) ==
    [queue |-> queue, correlationId |-> correlationId, replyTo |-> replyTo,
     content |-> content, tag |-> tag]

NoDelivery == Delivery("none", StrayId, Undefined, Undefined, 0)

(* A continuation suspended on a Redis command *)
Continuation(op, ws, correlationId, landmark_data, user_tone, replyTo, tag) ==
    [op |-> op, ws |-> ws, correlationId |-> correlationId, landmark_data |-> landmark_data,
     user_tone |-> user_tone, replyTo |-> replyTo, tag |-> tag]

(* A console line *)
Log(text, correlationId) == [text |-> text, correlationId |-> correlationId]

---------------------------------------------------------------------------
(* The array heap: ws.landmarkSequences = [] allocates, unreachable arrays are collected *)

Min(S) == CHOOSE x \in S : \A y \in S : x <= y

Reachable(ls, queue) ==
    ({ls[s] : s \in Sessions} \cup {queue[i].landmark_data : i \in 1..Len(queue)}) \ {NoArray}

NewArray(ls, queue) ==
    Min((1..(Cardinality(Sessions) + Len(queue) + 1)) \ Reachable(ls, queue))

Collect(heap, ls, queue) == [a \in Reachable(ls, queue) |-> IF a \in DOMAIN heap THEN heap[a] ELSE << >>]

---------------------------------------------------------------------------
(* The browser client after its first render and effects: connectWebSocket *)
(* has made the first connection attempt, the MediaPipe scripts are loaded *)

(* The frame of consecutive landmarks sent once sequenceRef holds this many *)
sequenceBuffer == 30

ClientTones == {"Casual", "Formal"}

(* notification === null *)
NoNotification == [message |-> Undefined, type |-> Undefined]

Notification(message, type) == [message |-> message, type |-> type]

ClientInit ==
    /\ mounted = TRUE
    /\ wsRef = "CONNECTING"
    /\ retryTimers = 0
    /\ attempts = 1
    /\ status = "Connecting..."
    /\ notification = NoNotification
    /\ detectedTone = "N/A"
    /\ subtitleText = ""
    /\ isPlayingAudio = FALSE
    /\ subtitleTimeout = FALSE
    /\ isRecording = FALSE
    /\ mode = "auto"
    /\ uiMode = "auto"
    /\ startTimeout = FALSE
    /\ stopTimeout = FALSE
    /\ recordingTone = "Casual"
    /\ sequenceLength = 0
    /\ clientSent = << >>
    /\ lastHandler = "connectWebSocket"
    /\ lastData = Frame(Undefined, Undefined, Undefined, Undefined, Undefined)

---------------------------------------------------------------------------
Init ==
    /\ readyState = [s \in Sessions |-> "NONE"]
    /\ landmarkSequences = [s \in Sessions |-> NoArray]
    /\ arrays = EmptyMap
    /\ received = [s \in Sessions |-> << >>]
    /\ sent = [s \in Sessions |-> << >>]
    /\ waitingClients = EmptyMap
    /\ issued = << >>
    /\ store = EmptyMap
    /\ ttl = {}
    /\ redisUp = TRUE
    /\ redisQueue = << >>
    /\ channelUp = TRUE
    /\ bus = << >>
    /\ deliveryTag = 0
    /\ lastDelivery = NoDelivery
    /\ ackCount = EmptyMap
    /\ uncaught = 0
    /\ written = EmptyMap
    /\ console = Log("Listening for messages on RabbitMQ queues...", StrayId)
    /\ events = 0
    /\ ClientInit

---------------------------------------------------------------------------
(* Shared pieces of the handlers *)

(* ws.landmarkSequences = [] on connection s, with queue the continuations left *)
FreshArray(s, queue) == NewArray([landmarkSequences EXCEPT ![s] = NoArray], queue)

ResetBuffer(s, queue) ==
    /\ landmarkSequences' = [landmarkSequences EXCEPT ![s] = FreshArray(s, queue)]
    /\ arrays' = [a \in Reachable(landmarkSequences', queue) |->
                    IF a = FreshArray(s, queue) THEN << >> ELSE arrays[a]]

WsSend_Broadcast(s, frame) ==
    sent' = [x \in Sessions |-> IF readyState[x] = "OPEN" THEN Append(sent[x], frame) ELSE sent[x]]

(* ws.send: the ws library writes a frame only on an OPEN socket *)
WsSend(s, frame) ==
    sent' = [sent EXCEPT ![s] = IF readyState[s] = "OPEN" THEN Append(@, frame) ELSE @]

Ack_Twice(tag) == ackCount' = MapSet(ackCount, tag, 2)

(* amqpChannel.ack(msg) *)
Ack(tag) ==
    ackCount' = MapSet(ackCount, tag, (IF MapHas(ackCount, tag) THEN ackCount[tag] ELSE 0) + 1)

(* The consumer callback is entered, over an open channel, with the next delivery tag *)
Deliver(queue, correlationId, replyTo, content) ==
    /\ channelUp
    /\ deliveryTag' = deliveryTag + 1
    /\ lastDelivery' = Delivery(queue, correlationId, replyTo, content, deliveryTag + 1)

(* Identities carried by messages of the first stage, which the workers answer *)
PublishedJobs ==
    {bus[i].correlationId : i \in {j \in 1..Len(bus) : bus[j].routingKey = "recognition_task"}}

(* Correlation identities an incoming bus message may carry *)
CorrelationIds == (1..Len(issued)) \cup {StrayId}

---------------------------------------------------------------------------
(* wss.on('connection') and ws.on('close') *)

Connect(s) ==
    /\ UNCHANGED <<channelUp, clientVars>>
    /\ readyState[s] = "NONE"
    /\ readyState' = [readyState EXCEPT ![s] = "OPEN"]
    /\ ResetBuffer(s, redisQueue)
    /\ console' = Log("Client connected", StrayId)
    /\ UNCHANGED <<received, sent, waitingClients, issued, store, ttl, redisUp, redisQueue,
                   bus, deliveryTag, lastDelivery, ackCount, uncaught, written, events>>

Close(s) ==
    /\ UNCHANGED <<channelUp, clientVars>>
    /\ readyState[s] = "OPEN"
    /\ readyState' = [readyState EXCEPT ![s] = "CLOSED"]
    /\ console' = Log("Client disconnected.", StrayId)
    /\ UNCHANGED <<landmarkSequences, arrays, received, sent, waitingClients, issued, store,
                   ttl, redisUp, redisQueue, bus, deliveryTag, lastDelivery, ackCount,
                   uncaught, written, events>>

---------------------------------------------------------------------------
(* ws.on('message'): the synchronous part, up to the first await *)

OnSigningData(s, sequence) ==
    /\ UNCHANGED <<channelUp, clientVars>>
    /\ readyState[s] = "OPEN"
    /\ events' = events + 1
    /\ received' = [received EXCEPT ![s] = Append(@, SigningData(sequence))]
    /\ arrays' = [arrays EXCEPT ![landmarkSequences[s]] = Append(@, sequence)]
    /\ UNCHANGED <<readyState, landmarkSequences, sent, waitingClients, issued, store, ttl,
                   redisUp, redisQueue, bus, deliveryTag, lastDelivery, ackCount, uncaught,
                   written, console>>

(* The registry entry made at line 499 *)
Register_SharedSocket(correlationId, s) == MapSet(waitingClients, correlationId, "ws1")

Register(correlationId, s) == MapSet(waitingClients, correlationId, s)

NonEmpty_Always(buffer) == Len(buffer) >= 0

(* ws.landmarkSequences.length > 0 *)
NonEmpty(buffer) == Len(buffer) > 0

OnEndOfSentence(s, tone) ==
    /\ UNCHANGED <<channelUp, clientVars>>
    /\ readyState[s] = "OPEN"
    /\ events' = events + 1
    /\ received' = [received EXCEPT ![s] = Append(@, EndOfSentence(tone))]
    /\ IF NonEmpty(arrays[landmarkSequences[s]])
       THEN LET correlationId == Len(issued) + 1 IN
            /\ issued' = Append(issued, s)
            /\ waitingClients' = Register(correlationId, s)
            /\ redisQueue' = Append(redisQueue,
                    Continuation("hSet", s, correlationId, landmarkSequences[s],
                                 OrCasual(tone), RESULTS_QUEUE, 0))
            /\ UNCHANGED <<landmarkSequences, arrays>>
       ELSE /\ ResetBuffer(s, redisQueue)
            /\ UNCHANGED <<issued, waitingClients, redisQueue>>
    /\ UNCHANGED <<readyState, sent, store, ttl, redisUp, bus, deliveryTag, lastDelivery,
                   ackCount, uncaught, written, console>>

OnMalformed(s) ==
    /\ UNCHANGED <<channelUp, clientVars>>
    /\ readyState[s] = "OPEN"
    /\ events' = events + 1
    /\ received' = [received EXCEPT ![s] = Append(@, Malformed)]
    /\ console' = Log("Error processing message:", StrayId)
    /\ WsSend(s, ErrorFrame)
    /\ UNCHANGED <<readyState, landmarkSequences, arrays, waitingClients, issued, store, ttl,
                   redisUp, redisQueue, bus, deliveryTag, lastDelivery, ackCount, uncaught,
                   written>>

---------------------------------------------------------------------------
(* ws.on('message'): the continuations of an end_of_sentence frame *)

(* await redisClient.hSet(...) returned: the command took effect, expire is issued *)
OnHSetReply ==
    /\ UNCHANGED <<channelUp, clientVars>>
    /\ redisUp
    /\ redisQueue # << >>
    /\ Head(redisQueue).op = "hSet"
    /\ LET c == Head(redisQueue) IN
        /\ store' = HSet(store, RedisKey(c.correlationId), "user_tone", c.user_tone)
        /\ redisQueue' = Append(Tail(redisQueue), [c EXCEPT !.op = "expire"])
    /\ UNCHANGED <<readyState, landmarkSequences, arrays, received, sent, waitingClients,
                   issued, ttl, redisUp, bus, deliveryTag, lastDelivery, ackCount, uncaught,
                   written, console, events>>

JobPublication_AfterReset(c) ==
    Publication("recognition_task", c.correlationId, RESULTS_QUEUE, JobBody(<< >>, c.user_tone))

(* JSON.stringify(jobPayload) at line 508 reads the array jobPayload.landmark_data refers to *)
JobPublication(c) ==
    Publication("recognition_task", c.correlationId, RESULTS_QUEUE,
                JobBody(arrays[c.landmark_data], c.user_tone))

(* await redisClient.expire(...) returned: publish the job, then reset the buffer *)
OnExpireReply ==
    /\ UNCHANGED <<channelUp, clientVars>>
    /\ redisUp
    /\ channelUp
    /\ redisQueue # << >>
    /\ Head(redisQueue).op = "expire"
    /\ LET c == Head(redisQueue) IN
        /\ ttl' = Expire(ttl, store, RedisKey(c.correlationId))
        /\ bus' = Append(bus, JobPublication(c))
        /\ console' = Log("Published job to the pipeline.", c.correlationId)
        /\ ResetBuffer(c.ws, Tail(redisQueue))
    /\ redisQueue' = Tail(redisQueue)
    /\ UNCHANGED <<readyState, received, sent, waitingClients, issued, store, redisUp,
                   deliveryTag, lastDelivery, ackCount, uncaught, written, events>>

(* await redisClient.expire(...) returned but amqpChannel.publish throws on the closed *)
(* channel: the catch block at lines 516-519, line 514 is not reached                  *)
OnPublishThrow ==
    /\ UNCHANGED clientVars
    /\ redisUp
    /\ ~channelUp
    /\ redisQueue # << >>
    /\ Head(redisQueue).op = "expire"
    /\ ttl' = Expire(ttl, store, RedisKey(Head(redisQueue).correlationId))
    /\ console' = Log("Error processing message:", Head(redisQueue).correlationId)
    /\ WsSend(Head(redisQueue).ws, ErrorFrame)
    /\ redisQueue' = Tail(redisQueue)
    /\ arrays' = Collect(arrays, landmarkSequences, Tail(redisQueue))
    /\ UNCHANGED <<readyState, landmarkSequences, received, waitingClients, issued, store,
                   redisUp, channelUp, bus, deliveryTag, lastDelivery, ackCount, uncaught,
                   written, events>>

(* hSet or expire rejected: the catch block at lines 516-519 *)
OnJobReject ==
    /\ UNCHANGED <<channelUp, clientVars>>
    /\ ~redisUp
    /\ redisQueue # << >>
    /\ Head(redisQueue).op \in {"hSet", "expire"}
    /\ console' = Log("Error processing message:", Head(redisQueue).correlationId)
    /\ WsSend(Head(redisQueue).ws, ErrorFrame)
    /\ redisQueue' = Tail(redisQueue)
    /\ arrays' = Collect(arrays, landmarkSequences, Tail(redisQueue))
    /\ UNCHANGED <<readyState, landmarkSequences, received, waitingClients, issued, store,
                   ttl, redisUp, bus, deliveryTag, lastDelivery, ackCount, uncaught, written,
                   events>>

---------------------------------------------------------------------------
(* handleResultMessage and handleDeadLetterMessage: synchronous consumers *)

(* waitingClients.get(correlationId) *)
Resolve_FirstClient(correlationId) ==
    IF MapHas(waitingClients, correlationId) THEN waitingClients[correlationId] ELSE "ws1"

Resolve(correlationId) == MapGet(waitingClients, correlationId)

ClientOpen_Registered(client) == client # Undefined

(* client && client.readyState === WebSocket.OPEN *)
ClientOpen(client) == client # Undefined /\ readyState[client] = "OPEN"

HandleResultMessage(correlationId, content) ==
    /\ UNCHANGED <<channelUp, clientVars>>
    /\ events' = events + 1
    /\ Deliver(RESULTS_QUEUE, correlationId, Undefined, content)
    /\ Ack(deliveryTag + 1)
    /\ LET client == Resolve(correlationId) IN
        IF ClientOpen(client)
        THEN /\ console' = Log("Received final result for job", correlationId)
             /\ WsSend(client, WireFrame(content))
             /\ waitingClients' = MapDelete(waitingClients, correlationId)
        ELSE UNCHANGED <<console, sent, waitingClients>>
    /\ UNCHANGED <<readyState, landmarkSequences, arrays, received, issued, store, ttl,
                   redisUp, redisQueue, bus, uncaught, written>>

HandleDeadLetterMessage(correlationId, content) ==
    /\ UNCHANGED <<channelUp, clientVars>>
    /\ events' = events + 1
    /\ Deliver(DEAD_LETTER_QUEUE, correlationId, Undefined, content)
    /\ Ack(deliveryTag + 1)
    /\ LET client == Resolve(correlationId)
           failedJob == JSONParse(content)
       IN  IF ClientOpen(client)
           THEN IF failedJob.ok
                THEN /\ console' = Log("TTS job failed. Sending text fallback.", correlationId)
                     /\ WsSend(client, FallbackFrame(failedJob))
                     /\ waitingClients' = MapDelete(waitingClients, correlationId)
                     /\ UNCHANGED uncaught
                ELSE /\ uncaught' = uncaught + 1
                     /\ UNCHANGED <<console, sent, waitingClients>>
           ELSE UNCHANGED <<console, sent, waitingClients, uncaught>>
    /\ UNCHANGED <<readyState, landmarkSequences, arrays, received, issued, store, ttl,
                   redisUp, redisQueue, bus, written>>

---------------------------------------------------------------------------
(* handleAggregationNotification: the aggregation barrier *)

Unacked_AutoAck(tag) == MapSet(ackCount, tag, 1)

(* noAck: false at line 400: a notification is delivered unacknowledged *)
Unacked(tag) == MapSet(ackCount, tag, 0)

(* Lines 440-446: up to await redisClient.hGetAll(redisKey) *)
HandleAggregationNotification(correlationId, replyTo) ==
    /\ UNCHANGED <<channelUp, clientVars>>
    /\ events' = events + 1
    /\ Deliver(NOTIFICATION_QUEUE, correlationId, replyTo, Undefined)
    /\ ackCount' = Unacked(deliveryTag + 1)
    /\ console' = Log("Received notification for job", correlationId)
    /\ redisQueue' = Append(redisQueue,
            Continuation("hGetAll", NoSession, correlationId, NoArray, Undefined, replyTo,
                         deliveryTag + 1))
    /\ UNCHANGED <<readyState, landmarkSequences, arrays, received, sent, waitingClients,
                   issued, store, ttl, redisUp, bus, uncaught, written>>

Complete_Either(jobParts) ==
    MapGet(jobParts, "raw_gloss") # Undefined \/ MapGet(jobParts, "dominant_emotion") # Undefined

Complete_Always(jobParts) ==
    DOMAIN jobParts \subseteq {"user_tone", "raw_gloss", "dominant_emotion"}

(* rawGloss !== undefined && dominantEmotion !== undefined *)
Complete(jobParts) ==
    MapGet(jobParts, "raw_gloss") # Undefined /\ MapGet(jobParts, "dominant_emotion") # Undefined

(* next_job_payload, published at lines 460-465 *)
GeminiPublication(c, jobParts) ==
    Publication("gemini_task", c.correlationId, c.replyTo,
                GeminiBody(MapGet(jobParts, "raw_gloss"), MapGet(jobParts, "dominant_emotion"),
                           OrCasual(MapGet(jobParts, "user_tone"))))

(* Lines 446-471: hGetAll returned; forward and issue del, or wait and ack *)
OnHGetAllReply ==
    /\ UNCHANGED <<channelUp, clientVars>>
    /\ redisUp
    /\ channelUp
    /\ redisQueue # << >>
    /\ Head(redisQueue).op = "hGetAll"
    /\ LET c == Head(redisQueue)
           jobParts == HGetAll(store, RedisKey(c.correlationId))
       IN  IF Complete(jobParts)
           THEN /\ console' = Log("Both parts ready. Forwarding to Gemini.", c.correlationId)
                /\ bus' = Append(bus, GeminiPublication(c, jobParts))
                /\ redisQueue' = Append(Tail(redisQueue), [c EXCEPT !.op = "del"])
                /\ UNCHANGED ackCount
           ELSE /\ console' = Log("Waiting for other part of job", c.correlationId)
                /\ Ack(c.tag)
                /\ redisQueue' = Tail(redisQueue)
                /\ UNCHANGED bus
    /\ UNCHANGED <<readyState, landmarkSequences, arrays, received, sent, waitingClients,
                   issued, store, ttl, redisUp, deliveryTag, lastDelivery, uncaught, written,
                   events>>

(* Lines 467-475: del returned; ack *)
OnDelReply ==
    /\ UNCHANGED <<channelUp, clientVars>>
    /\ redisUp
    /\ channelUp
    /\ redisQueue # << >>
    /\ Head(redisQueue).op = "del"
    /\ LET c == Head(redisQueue) IN
        /\ store' = Del(store, RedisKey(c.correlationId))
        /\ ttl' = ttl \ {RedisKey(c.correlationId)}
        /\ console' = Log("Published to Gemini and cleaned up Redis", c.correlationId)
        /\ Ack(c.tag)
    /\ redisQueue' = Tail(redisQueue)
    /\ UNCHANGED <<readyState, landmarkSequences, arrays, received, sent, waitingClients,
                   issued, redisUp, bus, deliveryTag, lastDelivery, uncaught, written, events>>

(* hGetAll or del rejected: the catch block at lines 472-474, then ack *)
OnBarrierReject ==
    /\ UNCHANGED <<channelUp, clientVars>>
    /\ ~redisUp
    /\ channelUp
    /\ redisQueue # << >>
    /\ Head(redisQueue).op \in {"hGetAll", "del"}
    /\ console' = Log("Redis error for job", Head(redisQueue).correlationId)
    /\ Ack(Head(redisQueue).tag)
    /\ redisQueue' = Tail(redisQueue)
    /\ UNCHANGED <<readyState, landmarkSequences, arrays, received, sent, waitingClients,
                   issued, store, ttl, redisUp, bus, deliveryTag, lastDelivery, uncaught,
                   written, events>>

(* The channel closed while the handler was suspended: publish (line 460) or ack *)
(* (line 475) throws, and the handler's promise rejects with nobody awaiting it   *)
OnBarrierChannelClosed ==
    /\ UNCHANGED clientVars
    /\ ~channelUp
    /\ redisQueue # << >>
    /\ Head(redisQueue).op \in {"hGetAll", "del"}
    /\ LET c == Head(redisQueue)
           key == RedisKey(c.correlationId)
           jobParts == HGetAll(store, key)
       IN  /\ IF redisUp /\ c.op = "del"
              THEN store' = Del(store, key) /\ ttl' = ttl \ {key}
              ELSE UNCHANGED <<store, ttl>>
           /\ console' =
                IF ~redisUp \/ (c.op = "hGetAll" /\ Complete(jobParts))
                THEN Log("Redis error for job", c.correlationId)
                ELSE IF c.op = "del"
                     THEN Log("Published to Gemini and cleaned up Redis", c.correlationId)
                     ELSE Log("Waiting for other part of job", c.correlationId)
    /\ uncaught' = uncaught + 1
    /\ redisQueue' = Tail(redisQueue)
    /\ UNCHANGED <<readyState, landmarkSequences, arrays, received, sent, waitingClients,
                   issued, redisUp, channelUp, bus, deliveryTag, lastDelivery, ackCount,
                   written, events>>

---------------------------------------------------------------------------
(* The environment: recognition workers, the store's expiry, connection loss *)

WorkerFields == {"raw_gloss", "dominant_emotion"}

(* Reply destinations a notification may carry: the job's, or none *)
ReplyTos == {RESULTS_QUEUE, Undefined}

WorkerValue(field) == IF field = "raw_gloss" THEN "HELLO WORLD" ELSE "happy"

Range(seq) == {seq[i] : i \in 1..Len(seq)}

WrittenBy(correlationId) == IF correlationId \in DOMAIN written THEN written[correlationId] ELSE << >>

(* A worker writes its field under job:<id>, once, after receiving the job *)
WorkerWrite(correlationId, field) ==
    /\ UNCHANGED <<channelUp, clientVars>>
    /\ events' = events + 1
    /\ correlationId \in PublishedJobs
    /\ field \notin Range(WrittenBy(correlationId))
    /\ written' = MapSet(written, correlationId, Append(WrittenBy(correlationId), field))
    /\ store' = HSet(store, RedisKey(correlationId), field, WorkerValue(field))
    /\ UNCHANGED <<readyState, landmarkSequences, arrays, received, sent, waitingClients,
                   issued, ttl, redisUp, redisQueue, bus, deliveryTag, lastDelivery, ackCount,
                   uncaught, console>>

(* The expiry set at line 503 elapses *)
TTLExpire(key) ==
    /\ UNCHANGED <<channelUp, clientVars>>
    /\ events' = events + 1
    /\ key \in ttl
    /\ store' = Del(store, key)
    /\ ttl' = ttl \ {key}
    /\ UNCHANGED <<readyState, landmarkSequences, arrays, received, sent, waitingClients,
                   issued, redisUp, redisQueue, bus, deliveryTag, lastDelivery, ackCount,
                   uncaught, written, console>>

(* The Redis connection is lost: pending and later commands are rejected *)
RedisDown ==
    /\ UNCHANGED <<channelUp, clientVars>>
    /\ redisUp
    /\ redisUp' = FALSE
    /\ console' = Log("Redis Client Error", StrayId)
    /\ UNCHANGED <<readyState, landmarkSequences, arrays, received, sent, waitingClients,
                   issued, store, ttl, redisQueue, bus, deliveryTag, lastDelivery, ackCount,
                   uncaught, written, events>>

(* The RabbitMQ channel closes: publish and ack throw from now on, nothing is delivered *)
ChannelDown ==
    /\ UNCHANGED clientVars
    /\ channelUp
    /\ channelUp' = FALSE
    /\ UNCHANGED <<readyState, landmarkSequences, arrays, received, sent, waitingClients,
                   issued, store, ttl, redisUp, redisQueue, bus, deliveryTag, lastDelivery,
                   ackCount, uncaught, written, console, events>>

---------------------------------------------------------------------------
(* The client: wsRef.current's callbacks (lines 84-133) *)

(* A JS value in a condition: undefined and '' are falsy *)
Truthy(value) == value # Undefined /\ value # ""

(* The frames the gateway writes to a connection *)
ClientInbound ==
    {WireFrame(c) : c \in ResultContents}
    \cup {FallbackFrame(JSONParse(c)) : c \in {d \in DeadLetterContents : JSONParse(d).ok}}
    \cup {ErrorFrame}

(* wsRef.current.send under the check readyState === WebSocket.OPEN *)
ClientSend(frame) ==
    clientSent' = IF wsRef = "OPEN" THEN Append(clientSent, frame) ELSE clientSent

WsOnOpen ==
    /\ UNCHANGED lastData
    /\ wsRef = "CONNECTING"
    /\ wsRef' = "OPEN"
    /\ status' = "Connected"
    /\ lastHandler' = "onopen"
    /\ UNCHANGED <<mounted, retryTimers, attempts, notification, detectedTone, subtitleText,
                   isPlayingAudio, subtitleTimeout, isRecording, mode, uiMode, startTimeout,
                   stopTimeout, recordingTone, sequenceLength, clientSent>>
    /\ UNCHANGED gatewayVars

(* The branch of line 113, reached when lines 91 and 111 are both false *)
ShowsFallback(data) ==
    /\ ~(Truthy(data.audioData) /\ Truthy(data.sentence))
    /\ ~Truthy(data.conversationTone)
    /\ Truthy(data.fallbackText)

(* The branch of line 115 *)
ShowsError(data) ==
    /\ ~(Truthy(data.audioData) /\ Truthy(data.sentence))
    /\ ~Truthy(data.conversationTone)
    /\ ~Truthy(data.fallbackText)
    /\ Truthy(data.error)

(* wsRef.current.onmessage, lines 88-118 *)
WsOnMessage(data) ==
    /\ wsRef = "OPEN"
    /\ lastHandler' = "onmessage"
    /\ lastData' = data
    /\ notification' =
            IF ShowsFallback(data) THEN Notification(data.fallbackText, "warning")
            ELSE IF ShowsError(data) THEN Notification(data.error, "error")
            ELSE NoNotification
    /\ IF Truthy(data.audioData) /\ Truthy(data.sentence)
       THEN /\ isPlayingAudio' = TRUE
            /\ subtitleText' = data.sentence
            /\ subtitleTimeout' = FALSE
            /\ UNCHANGED detectedTone
       ELSE /\ detectedTone' = IF Truthy(data.conversationTone)
                               THEN data.conversationTone ELSE detectedTone
            /\ UNCHANGED <<isPlayingAudio, subtitleText, subtitleTimeout>>
    /\ UNCHANGED <<mounted, wsRef, retryTimers, attempts, status, isRecording, mode, uiMode,
                   startTimeout, stopTimeout, recordingTone, sequenceLength, clientSent>>
    /\ UNCHANGED gatewayVars

(* wsRef.current.onerror, lines 123-126: close() on a socket not yet closed *)
WsOnError ==
    /\ UNCHANGED lastData
    /\ wsRef \in {"CONNECTING", "OPEN"}
    /\ wsRef' = "CLOSING"
    /\ status' = "Connection Error: "
    /\ lastHandler' = "onerror"
    /\ UNCHANGED <<mounted, retryTimers, attempts, notification, detectedTone, subtitleText,
                   isPlayingAudio, subtitleTimeout, isRecording, mode, uiMode, startTimeout,
                   stopTimeout, recordingTone, sequenceLength, clientSent>>
    /\ UNCHANGED gatewayVars

(* wsRef.current.onclose, lines 119-122: the server or close() ended the socket *)
WsOnClose ==
    /\ UNCHANGED lastData
    /\ wsRef \in {"OPEN", "CLOSING"}
    /\ wsRef' = "CLOSED"
    /\ status' = "Disconnected. Retrying..."
    /\ retryTimers' = retryTimers + 1
    /\ lastHandler' = "onclose"
    /\ UNCHANGED <<mounted, attempts, notification, detectedTone, subtitleText,
                   isPlayingAudio, subtitleTimeout, isRecording, mode, uiMode, startTimeout,
                   stopTimeout, recordingTone, sequenceLength, clientSent>>
    /\ UNCHANGED gatewayVars

(* The timer of line 121 fires: connectWebSocket, lines 85-87 *)
ConnectWebSocket ==
    /\ UNCHANGED lastData
    /\ retryTimers > 0
    /\ retryTimers' = retryTimers - 1
    /\ wsRef' = "CONNECTING"
    /\ attempts' = attempts + 1
    /\ lastHandler' = "connectWebSocket"
    /\ UNCHANGED <<mounted, status, notification, detectedTone, subtitleText,
                   isPlayingAudio, subtitleTimeout, isRecording, mode, uiMode, startTimeout,
                   stopTimeout, recordingTone, sequenceLength, clientSent>>
    /\ UNCHANGED gatewayVars

(* The cleanup of the effect, lines 129-132 *)
Cleanup ==
    /\ UNCHANGED lastData
    /\ mounted
    /\ mounted' = FALSE
    /\ wsRef' = IF wsRef \in {"CONNECTING", "OPEN"} THEN "CLOSING" ELSE wsRef
    /\ subtitleTimeout' = FALSE
    /\ lastHandler' = "cleanup"
    /\ UNCHANGED <<retryTimers, attempts, status, notification, detectedTone, subtitleText,
                   isPlayingAudio, isRecording, mode, uiMode, startTimeout, stopTimeout, recordingTone,
                   sequenceLength, clientSent>>
    /\ UNCHANGED gatewayVars

(* audio.onloadedmetadata, lines 101-106 *)
OnLoadedMetadata ==
    /\ UNCHANGED lastData
    /\ isPlayingAudio
    /\ ~subtitleTimeout
    /\ subtitleTimeout' = TRUE
    /\ lastHandler' = "onloadedmetadata"
    /\ UNCHANGED <<mounted, wsRef, retryTimers, attempts, status, notification, detectedTone,
                   subtitleText, isPlayingAudio, isRecording, mode, uiMode, startTimeout,
                   stopTimeout, recordingTone, sequenceLength, clientSent>>
    /\ UNCHANGED gatewayVars

(* The timer of line 103 fires *)
SubtitleTimeoutFires ==
    /\ UNCHANGED lastData
    /\ subtitleTimeout
    /\ subtitleTimeout' = FALSE
    /\ subtitleText' = ""
    /\ lastHandler' = "subtitleTimeout"
    /\ UNCHANGED <<mounted, wsRef, retryTimers, attempts, status, notification, detectedTone,
                   isPlayingAudio, isRecording, mode, uiMode, startTimeout, stopTimeout, recordingTone,
                   sequenceLength, clientSent>>
    /\ UNCHANGED gatewayVars

(* audio.onended, line 109 *)
OnEnded ==
    /\ UNCHANGED lastData
    /\ isPlayingAudio
    /\ isPlayingAudio' = FALSE
    /\ lastHandler' = "onended"
    /\ UNCHANGED <<mounted, wsRef, retryTimers, attempts, status, notification, detectedTone,
                   subtitleText, subtitleTimeout, isRecording, mode, uiMode, startTimeout,
                   stopTimeout, recordingTone, sequenceLength, clientSent>>
    /\ UNCHANGED gatewayVars

(* Toast's timer, lines 28-31 and 267 *)
OnDismiss ==
    /\ UNCHANGED lastData
    /\ notification # NoNotification
    /\ notification' = NoNotification
    /\ lastHandler' = "onDismiss"
    /\ UNCHANGED <<mounted, wsRef, retryTimers, attempts, status, detectedTone, subtitleText,
                   isPlayingAudio, subtitleTimeout, isRecording, mode, uiMode, startTimeout,
                   stopTimeout, recordingTone, sequenceLength, clientSent>>
    /\ UNCHANGED gatewayVars

---------------------------------------------------------------------------
(* The client: recording (lines 143-248) *)

(* onResults, lines 143-210, for a camera frame with or without a hand in view *)
OnResults(handsVisible) ==
    /\ UNCHANGED lastData
    /\ lastHandler' = "onResults"
    /\ IF mode = "auto" /\ handsVisible /\ ~isRecording
       THEN stopTimeout' = FALSE /\ startTimeout' = TRUE
       ELSE IF mode = "auto" /\ ~handsVisible /\ isRecording
            THEN startTimeout' = FALSE /\ stopTimeout' = TRUE
            ELSE UNCHANGED <<startTimeout, stopTimeout>>
    /\ LET pushed == IF isRecording THEN sequenceLength + 1 ELSE sequenceLength IN
        IF pushed = sequenceBuffer
        THEN /\ ClientSend(SigningData("b1"))
             /\ sequenceLength' = 0
        ELSE /\ sequenceLength' = pushed
             /\ UNCHANGED clientSent
    /\ UNCHANGED <<mounted, wsRef, retryTimers, attempts, status, notification, detectedTone,
                   subtitleText, isPlayingAudio, subtitleTimeout, isRecording, mode, uiMode,
                   recordingTone>>
    /\ UNCHANGED gatewayVars

(* The timer of line 171 fires *)
StartTimeoutFires ==
    /\ UNCHANGED lastData
    /\ startTimeout
    /\ isRecording' = TRUE
    /\ startTimeout' = FALSE
    /\ lastHandler' = "startTimeout"
    /\ UNCHANGED <<mounted, wsRef, retryTimers, attempts, status, notification, detectedTone,
                   subtitleText, isPlayingAudio, subtitleTimeout, mode, uiMode, stopTimeout,
                   recordingTone, sequenceLength, clientSent>>
    /\ UNCHANGED gatewayVars

(* The timer of line 180 fires *)
StopTimeoutFires ==
    /\ UNCHANGED lastData
    /\ stopTimeout
    /\ isRecording' = FALSE
    /\ ClientSend(EndOfSentence(recordingTone))
    /\ stopTimeout' = FALSE
    /\ lastHandler' = "stopTimeout"
    /\ UNCHANGED <<mounted, wsRef, retryTimers, attempts, status, notification, detectedTone,
                   subtitleText, isPlayingAudio, subtitleTimeout, mode, uiMode, startTimeout,
                   recordingTone, sequenceLength>>
    /\ UNCHANGED gatewayVars

(* handleModeToggle, lines 225-230 *)
HandleModeToggle ==
    /\ UNCHANGED lastData
    /\ mounted
    /\ LET newMode == IF uiMode = "auto" THEN "manual" ELSE "auto" IN
        /\ mode' = newMode
        /\ uiMode' = newMode
    /\ isRecording' = FALSE
    /\ lastHandler' = "handleModeToggle"
    /\ UNCHANGED <<mounted, wsRef, retryTimers, attempts, status, notification, detectedTone,
                   subtitleText, isPlayingAudio, subtitleTimeout, startTimeout, stopTimeout,
                   recordingTone, sequenceLength, clientSent>>
    /\ UNCHANGED gatewayVars

(* handleManualStart, lines 232-236; its button is rendered in manual mode only *)
HandleManualStart ==
    /\ UNCHANGED lastData
    /\ mounted
    /\ uiMode = "manual"
    /\ isRecording' = IF mode = "manual" THEN TRUE ELSE isRecording
    /\ lastHandler' = "handleManualStart"
    /\ UNCHANGED <<mounted, wsRef, retryTimers, attempts, status, notification, detectedTone,
                   subtitleText, isPlayingAudio, subtitleTimeout, mode, uiMode, startTimeout,
                   stopTimeout, recordingTone, sequenceLength, clientSent>>
    /\ UNCHANGED gatewayVars

(* handleManualStop, lines 238-248 *)
HandleManualStop ==
    /\ UNCHANGED lastData
    /\ mounted
    /\ uiMode = "manual"
    /\ IF mode = "manual"
       THEN isRecording' = FALSE /\ ClientSend(EndOfSentence(recordingTone))
       ELSE UNCHANGED <<isRecording, clientSent>>
    /\ lastHandler' = "handleManualStop"
    /\ UNCHANGED <<mounted, wsRef, retryTimers, attempts, status, notification, detectedTone,
                   subtitleText, isPlayingAudio, subtitleTimeout, mode, uiMode, startTimeout,
                   stopTimeout, recordingTone, sequenceLength>>
    /\ UNCHANGED gatewayVars

(* The recordingTone select's onChange, lines 295-299 *)
OnToneChange(newTone) ==
    /\ UNCHANGED lastData
    /\ mounted
    /\ recordingTone' = newTone
    /\ lastHandler' = "onChange"
    /\ UNCHANGED <<mounted, wsRef, retryTimers, attempts, status, notification, detectedTone,
                   subtitleText, isPlayingAudio, subtitleTimeout, isRecording, mode, uiMode,
                   startTimeout, stopTimeout, sequenceLength, clientSent>>
    /\ UNCHANGED gatewayVars

---------------------------------------------------------------------------
(* Specifications.  Every external event counts against a budget; the      *)
(* continuations it leaves behind always run.                              *)

Budget(n) == events < n

(* The connection gateway: client frames against a store and a channel that may fail *)
NextGateway ==
    \/ \E s \in Sessions : Connect(s)
    \/ Budget(MaxGatewayEvents) /\ \E s \in Sessions, b \in Batches : OnSigningData(s, b)
    \/ Budget(MaxGatewayEvents) /\ \E s \in Sessions, t \in FrameTones : OnEndOfSentence(s, t)
    \/ Budget(MaxGatewayEvents) /\ \E s \in Sessions : OnMalformed(s)
    \/ OnHSetReply
    \/ OnExpireReply
    \/ OnPublishThrow
    \/ OnJobReject
    \/ RedisDown
    \/ ChannelDown

SpecGateway == Init /\ [][NextGateway]_vars

(* The aggregation barrier: one connection's jobs, the workers, notifications, expiry *)
NextBarrier ==
    \/ Connect("ws1")
    \/ Budget(MaxBarrierEvents) /\ OnSigningData("ws1", "b1")
    \/ Budget(MaxBarrierEvents) /\ \E t \in FrameTones : OnEndOfSentence("ws1", t)
    \/ OnHSetReply
    \/ OnExpireReply
    \/ OnJobReject
    \/ Budget(MaxBarrierEvents) /\ \E id \in PublishedJobs, f \in WorkerFields : WorkerWrite(id, f)
    \/ Budget(MaxBarrierEvents) /\ \E id \in PublishedJobs, r \in ReplyTos : HandleAggregationNotification(id, r)
    \/ OnHGetAllReply
    \/ OnDelReply
    \/ OnBarrierReject
    \/ Budget(MaxBarrierEvents) /\ \E k \in ttl : TTLExpire(k)
    \/ RedisDown

SpecBarrier == Init /\ [][NextBarrier]_vars

(* Delivery: jobs of several connections, result and dead-letter messages, disconnects *)
NextDelivery ==
    \/ \E s \in Sessions : Connect(s)
    \/ \E s \in Sessions : Close(s)
    \/ Budget(MaxDeliveryEvents) /\ \E s \in Sessions : OnSigningData(s, "b1")
    \/ Budget(MaxDeliveryEvents) /\ \E s \in Sessions : OnEndOfSentence(s, "Formal")
    \/ OnHSetReply
    \/ OnExpireReply
    \/ Budget(MaxDeliveryEvents) /\ \E id \in CorrelationIds, c \in ResultContents : HandleResultMessage(id, c)
    \/ Budget(MaxDeliveryEvents) /\ \E id \in CorrelationIds, c \in DeadLetterContents : HandleDeadLetterMessage(id, c)

SpecDelivery == Init /\ [][NextDelivery]_vars

(* The three consumers side by side: one connection's job, its result,     *)
(* dead-letter and notification messages, against a store that may fail    *)
NextConsumers ==
    \/ Connect("ws1")
    \/ Close("ws1")
    \/ Budget(MaxConsumerEvents) /\ OnSigningData("ws1", "b1")
    \/ Budget(MaxConsumerEvents) /\ OnEndOfSentence("ws1", "Formal")
    \/ OnHSetReply
    \/ OnExpireReply
    \/ OnJobReject
    \/ Budget(MaxConsumerEvents) /\ \E id \in CorrelationIds, c \in ResultContents : HandleResultMessage(id, c)
    \/ Budget(MaxConsumerEvents) /\ \E id \in CorrelationIds, c \in DeadLetterContents : HandleDeadLetterMessage(id, c)
    \/ Budget(MaxConsumerEvents) /\ \E id \in PublishedJobs, f \in WorkerFields : WorkerWrite(id, f)
    \/ Budget(MaxConsumerEvents) /\ \E id \in CorrelationIds : HandleAggregationNotification(id, RESULTS_QUEUE)
    \/ OnHGetAllReply
    \/ OnDelReply
    \/ OnBarrierReject
    \/ RedisDown

SpecConsumers == Init /\ [][NextConsumers]_vars

(* The client's connection: socket events, retries, inbound frames, unmount *)
NextSocket ==
    \/ WsOnOpen
    \/ \E data \in ClientInbound : WsOnMessage(data)
    \/ WsOnError
    \/ WsOnClose
    \/ attempts < MaxAttempts /\ ConnectWebSocket
    \/ Cleanup
    \/ OnLoadedMetadata
    \/ SubtitleTimeoutFires
    \/ OnEnded
    \/ OnDismiss

SpecSocket == Init /\ [][NextSocket]_vars

(* The client's recorder: camera frames, timers and the controls, over a    *)
(* socket that opens and closes                                            *)
NextRecorder ==
    \/ WsOnOpen
    \/ WsOnClose
    \/ Len(clientSent) < MaxClientFrames /\ \E handsVisible \in BOOLEAN : OnResults(handsVisible)
    \/ StartTimeoutFires
    \/ Len(clientSent) < MaxClientFrames /\ StopTimeoutFires
    \/ HandleModeToggle
    \/ HandleManualStart
    \/ Len(clientSent) < MaxClientFrames /\ HandleManualStop
    \/ \E newTone \in ClientTones : OnToneChange(newTone)

SpecRecorder == Init /\ [][NextRecorder]_vars

(* The whole program: the specifications above restrict it to the events   *)
(* of one subsystem.                                                       *)
Next ==
    \/ NextGateway \/ NextBarrier \/ NextDelivery \/ NextConsumers \/ OnBarrierChannelClosed
    \/ NextSocket \/ NextRecorder

Spec == Init /\ [][Next]_vars

(* Delivery with the event loop's guarantee that a Redis reply resumes its continuation *)
FairDelivery == SpecDelivery /\ WF_vars(OnHSetReply) /\ WF_vars(OnExpireReply)

---------------------------------------------------------------------------
(* Vocabulary of the properties *)

Indices(routingKey, correlationId) ==
    {i \in 1..Len(bus) : bus[i].routingKey = routingKey /\ bus[i].correlationId = correlationId}

Jobs(correlationId) == Indices("recognition_task", correlationId)

Forwards(correlationId) == Indices("gemini_task", correlationId)

(* The tone the job's first-stage message was published with *)
SeededTone(correlationId) == bus[CHOOSE i \in Jobs(correlationId) : TRUE].body.user_tone

(* This step resumes the oldest continuation, suspended on op, with Redis answering *)
Replied(op) ==
    /\ redisUp
    /\ redisQueue # << >>
    /\ Head(redisQueue).op = op
    /\ Len(redisQueue') <= Len(redisQueue)
    /\ redisQueue' # redisQueue

(* This step hands a message of the queue to its consumer *)
Consumed(queue) == deliveryTag' = deliveryTag + 1 /\ lastDelivery'.queue = queue

(* No handler of a frame of connection s is suspended *)
Handled(s) == \A i \in 1..Len(redisQueue) : redisQueue[i].ws # s

---------------------------------------------------------------------------
(* C1: on a connection whose frames so far are one or more signing_data    *)
(* frames followed by one end_of_sentence frame, once that frame's handler *)
(* has run to its end with the store and the channel up, exactly one job   *)
(* has been published to recognition_task for it, its landmark_data are    *)
(* the batches in arrival order, and ws.landmarkSequences is empty.        *)

AppendsThenEnd(frames) ==
    /\ Len(frames) >= 2
    /\ frames[Len(frames)].type = "end_of_sentence"
    /\ \A i \in 1..(Len(frames) - 1) : frames[i].type = "signing_data"

BatchesOf(frames) == [i \in 1..(Len(frames) - 1) |-> frames[i].sequence]

JobsOf(s) ==
    {i \in 1..Len(bus) : bus[i].routingKey = "recognition_task" /\ issued[bus[i].correlationId] = s}

C1_OneJobPerTurn ==
    \A s \in Sessions :
        (AppendsThenEnd(received[s]) /\ Handled(s) /\ redisUp /\ channelUp) =>
            /\ Cardinality(JobsOf(s)) = 1
            /\ \A i \in JobsOf(s) : bus[i].body.landmark_data = BatchesOf(received[s])
            /\ arrays[landmarkSequences[s]] = << >>

C1_Witness ==
    \E s \in Sessions :
        /\ AppendsThenEnd(received[s]) /\ Handled(s) /\ redisUp /\ channelUp
        /\ Len(received[s]) = 3
        /\ received[s][1].sequence # received[s][2].sequence
        /\ Cardinality(JobsOf(s)) = 1

---------------------------------------------------------------------------
(* C2: for every job identity at most one message is ever published to     *)
(* gemini_task, whatever the interleaving of the notification handlers.    *)

C2_AtMostOneForward ==
    \A id \in CorrelationIds : Cardinality(Forwards(id)) <= 1

---------------------------------------------------------------------------
(* C3: a notification whose hGetAll finds raw_gloss or dominant_emotion    *)
(* missing publishes nothing and leaves the store as it is; one that finds *)
(* both publishes exactly one gemini_task message with both fields, the    *)
(* tone, the notification's correlationId and replyTo; and when its del    *)
(* returns the record is gone.  seededAlways states the tone as the claim  *)
(* does (always the tone seeded at job creation); otherwise it is the      *)
(* seeded tone while the record holds user_tone and 'Casual' when not.     *)

BarrierOutcome(seededAlways) ==
    /\ Replied("hGetAll") =>
        LET c == Head(redisQueue)
            id == c.correlationId
            record == IF <<"job", id>> \in DOMAIN store THEN store[<<"job", id>>] ELSE EmptyMap
            tone == IF seededAlways \/ "user_tone" \in DOMAIN record
                    THEN SeededTone(id) ELSE "Casual"
        IN  IF {"raw_gloss", "dominant_emotion"} \subseteq DOMAIN record
            THEN /\ bus' = Append(bus,
                        [exchange |-> "aurasign_pipeline", routingKey |-> "gemini_task",
                         correlationId |-> id, replyTo |-> c.replyTo,
                         body |-> [landmark_data |-> << >>, user_tone |-> tone,
                                   raw_gloss |-> record["raw_gloss"],
                                   dominant_emotion |-> record["dominant_emotion"]]])
                 /\ store' = store
            ELSE bus' = bus /\ store' = store
    /\ Replied("del") => <<"job", Head(redisQueue).correlationId>> \notin DOMAIN store'

---------------------------------------------------------------------------
(* C4: once a forward has been published for an identity and its record is *)
(* gone, a notification for that identity handled again publishes nothing  *)
(* and writes nothing to the store.                                        *)

C4_DuplicateIsNoOp ==
    [][(/\ Replied("hGetAll")
        /\ Forwards(Head(redisQueue).correlationId) # {}
        /\ <<"job", Head(redisQueue).correlationId>> \notin DOMAIN store)
       => (bus' = bus /\ store' = store)]_vars

C4_Witness ==
    \E id \in CorrelationIds :
        /\ console = Log("Waiting for other part of job", id)
        /\ Cardinality(Forwards(id)) = 1
        /\ <<"job", id>> \notin DOMAIN store
        /\ redisQueue = << >>
        /\ redisUp

---------------------------------------------------------------------------
(* C5: whichever of raw_gloss and dominant_emotion was written first, once *)
(* both are written and every notification has been handled, a forward     *)
(* that was made is the only one, carries both fields, and the record is   *)
(* deleted.                                                                *)

C5_SameSingleForward ==
    \A id \in CorrelationIds :
        \A order \in {<<"raw_gloss", "dominant_emotion">>, <<"dominant_emotion", "raw_gloss">>} :
            (/\ WrittenBy(id) = order
             /\ redisQueue = << >>
             /\ redisUp
             /\ Forwards(id) # {})
            => /\ Cardinality(Forwards(id)) = 1
               /\ \A i \in Forwards(id) :
                    /\ bus[i].body.raw_gloss = "HELLO WORLD"
                    /\ bus[i].body.dominant_emotion = "happy"
               /\ <<"job", id>> \notin DOMAIN store

---------------------------------------------------------------------------
(* C6: a dead-letter message with a JSON body for an identity registered   *)
(* to an open connection appends exactly the failure frame to that         *)
(* connection, sends nothing to any other, and removes the identity from   *)
(* waitingClients.                                                         *)

---------------------------------------------------------------------------
(* C7: a result message whose identity has no entry in waitingClients      *)
(* sends no frame on any connection, throws nothing and leaves             *)
(* waitingClients as it is.                                                *)

C7_UnknownResultIsNoOp ==
    [][(/\ Consumed(RESULTS_QUEUE)
        /\ lastDelivery'.correlationId \notin DOMAIN waitingClients)
       => (sent' = sent /\ uncaught' = uncaught /\ waitingClients' = waitingClients)]_vars

C7_Witness ==
    /\ lastDelivery.queue = RESULTS_QUEUE
    /\ lastDelivery.correlationId = StrayId
    /\ waitingClients # EmptyMap
    /\ \E s \in Sessions : readyState[s] = "OPEN"

---------------------------------------------------------------------------
(* C8: after the handler of a result message, or of a dead-letter message  *)
(* with a JSON body, for a registered identity, the message has been       *)
(* acknowledged once and the identity is no longer in waitingClients,      *)
(* whether its connection is open or closed.                               *)

C8_AckedAndRemoved ==
    [][(/\ Consumed(RESULTS_QUEUE) \/ Consumed(DEAD_LETTER_QUEUE)
        /\ JSONParse(lastDelivery'.content).ok
        /\ lastDelivery'.correlationId \in DOMAIN waitingClients)
       => (/\ MapGet(ackCount', lastDelivery'.tag) = 1
           /\ lastDelivery'.correlationId \notin DOMAIN waitingClients')]_vars

---------------------------------------------------------------------------
(* C9: every identity in waitingClients is eventually removed from it.     *)

C9_EventuallyRemoved ==
    \A id \in 1..MaxDeliveryEvents :
        [](id \in DOMAIN waitingClients => <>(id \notin DOMAIN waitingClients))

---------------------------------------------------------------------------
(* C10: a result or dead-letter handler writes a frame only to the         *)
(* connection whose end_of_sentence frame drew the message's identity.     *)

C10_OutcomeToOwner ==
    [][(Consumed(RESULTS_QUEUE) \/ Consumed(DEAD_LETTER_QUEUE)) =>
        \A s \in Sessions :
            sent'[s] # sent[s] =>
                /\ lastDelivery'.correlationId \in 1..Len(issued)
                /\ issued[lastDelivery'.correlationId] = s]_vars

C10_Witness ==
    /\ Len(issued) = 2
    /\ issued[1] # issued[2]
    /\ 1 \in DOMAIN waitingClients
    /\ 2 \notin DOMAIN waitingClients
    /\ lastDelivery.correlationId = 2
    /\ Len(sent[issued[2]]) = 1
    /\ sent[issued[1]] = << >>

---------------------------------------------------------------------------
(* C11: the frames of one connection take effect in arrival order.  Replay *)
(* handles the frames one after the other, each to its end before the      *)
(* next: an end_of_sentence frame turns the batches buffered before it     *)
(* into one job and empties the buffer, a later signing_data frame goes to *)
(* the emptied buffer.  Once no handler of the connection is suspended,    *)
(* with the store and the channel up, the jobs published for the           *)
(* connection and its buffer are those of the replay: a batch arriving     *)
(* while an end_of_sentence handler is suspended is neither in that        *)
(* frame's job nor lost, and a second end_of_sentence frame in that window *)
(* makes no second job.                                                    *)

RECURSIVE Replay(_, _, _, _)
Replay(frames, i, buffer, jobs) ==
    IF i > Len(frames) THEN [buffer |-> buffer, jobs |-> jobs]
    ELSE IF frames[i].type = "signing_data"
         THEN Replay(frames, i + 1, Append(buffer, frames[i].sequence), jobs)
    ELSE IF frames[i].type = "end_of_sentence"
         THEN Replay(frames, i + 1, << >>, IF buffer = << >> THEN jobs ELSE Append(jobs, buffer))
    ELSE Replay(frames, i + 1, buffer, jobs)

JobDataOf(s) ==
    LET jobs == SelectSeq(bus, LAMBDA m : m.routingKey = "recognition_task"
                                          /\ issued[m.correlationId] = s)
    IN  [i \in 1..Len(jobs) |-> jobs[i].body.landmark_data]

C11_ArrivalOrder ==
    \A s \in Sessions :
        (readyState[s] # "NONE" /\ Handled(s) /\ redisUp /\ channelUp) =>
            /\ JobDataOf(s) = Replay(received[s], 1, << >>, << >>).jobs
            /\ arrays[landmarkSequences[s]] = Replay(received[s], 1, << >>, << >>).buffer

---------------------------------------------------------------------------
(* C12: an end_of_sentence frame handled while ws.landmarkSequences is     *)
(* empty adds no entry to waitingClients, draws no identity, issues no     *)
(* store command and publishes nothing.                                    *)

(* This step is the arrival of an end_of_sentence frame on connection s *)
EndOfSentenceArrives(s) ==
    /\ Len(received'[s]) = Len(received[s]) + 1
    /\ received'[s][Len(received'[s])].type = "end_of_sentence"

C12_EmptyTurnNoJob ==
    [][\A s \in Sessions :
        (EndOfSentenceArrives(s) /\ arrays[landmarkSequences[s]] = << >>)
        => /\ waitingClients' = waitingClients
           /\ issued' = issued
           /\ redisQueue' = redisQueue
           /\ store' = store
           /\ bus' = bus]_vars

C12_Witness ==
    \E s \in Sessions :
        /\ Len(received[s]) = 2
        /\ received[s][1].type = "end_of_sentence"
        /\ received[s][2].type = "end_of_sentence"
        /\ issued = << >>
        /\ waitingClients = EmptyMap
        /\ store = EmptyMap
        /\ bus = << >>
        /\ redisQueue = << >>

---------------------------------------------------------------------------
(* C13: once the handler of an end_of_sentence frame has run to its end,   *)
(* ws.landmarkSequences is empty, whether or not a job was published and   *)
(* also when hSet, expire or publish failed.                               *)

LastIsEndOfSentence(frames) ==
    Len(frames) > 0 /\ frames[Len(frames)].type = "end_of_sentence"

C13_BufferEmptyAfterTurn ==
    \A s \in Sessions :
        (LastIsEndOfSentence(received[s]) /\ Handled(s)) =>
            arrays[landmarkSequences[s]] = << >>

---------------------------------------------------------------------------
(* C14: a job is submitted in three ordered steps.  The end_of_sentence    *)
(* frame that draws an identity registers it for its connection and issues *)
(* hSet with the frame's tone, 'Casual' when the frame has none, without   *)
(* touching the store or the bus.  The hSet reply puts user_tone under     *)
(* job:<id> and publishes nothing.  Only the expire reply publishes: one   *)
(* recognition_task message with that identity, replyTo RESULTS_QUEUE and  *)
(* the seeded tone, at which point the identity is registered and the      *)
(* record holds user_tone and carries an expiry.                           *)

SubmissionOrder ==
    /\ \A s \in Sessions :
        (EndOfSentenceArrives(s) /\ issued' # issued) =>
            LET frame == received'[s][Len(received'[s])]
                id == Len(issued) + 1
                c == redisQueue'[Len(redisQueue')]
            IN  /\ issued' = Append(issued, s)
                /\ id \notin DOMAIN waitingClients
                /\ id \in DOMAIN waitingClients' /\ waitingClients'[id] = s
                /\ Len(redisQueue') = Len(redisQueue) + 1
                /\ c.op = "hSet" /\ c.correlationId = id
                /\ c.user_tone = (IF frame.tone = "undefined" THEN "Casual" ELSE frame.tone)
                /\ store' = store /\ ttl' = ttl /\ bus' = bus
    /\ Replied("hSet") =>
            LET c == Head(redisQueue) IN
                /\ c.correlationId \in DOMAIN waitingClients'
                /\ <<"job", c.correlationId>> \in DOMAIN store'
                /\ store'[<<"job", c.correlationId>>] = [f \in {"user_tone"} |-> c.user_tone]
                /\ bus' = bus
    /\ bus' # bus =>
            /\ redisQueue # << >>
            /\ Head(redisQueue).op = "expire"
            /\ LET id == Head(redisQueue).correlationId IN
                /\ Jobs(id) = {}
                /\ Len(bus') = Len(bus) + 1
                /\ \A i \in 1..Len(bus) : bus'[i] = bus[i]
                /\ bus'[Len(bus')].exchange = "aurasign_pipeline"
                /\ bus'[Len(bus')].routingKey = "recognition_task"
                /\ bus'[Len(bus')].correlationId = id
                /\ bus'[Len(bus')].replyTo = "aurasign_results_to_nodejs"
                /\ id \in DOMAIN waitingClients'
                /\ <<"job", id>> \in DOMAIN store'
                /\ "user_tone" \in DOMAIN store'[<<"job", id>>]
                /\ store'[<<"job", id>>]["user_tone"] = bus'[Len(bus')].body.user_tone
                /\ store' = store
                /\ <<"job", id>> \in ttl'

---------------------------------------------------------------------------
(* C15: a frame that JSON.parse rejects makes the gateway write one error  *)
(* frame to the connection it came from and to no other; the connection    *)
(* stays open, and the buffers, waitingClients, the store, the pending     *)
(* store commands and the bus stay as they are.                            *)

C15_MalformedIsLocal ==
    [][\A s \in Sessions :
        (/\ Len(received'[s]) = Len(received[s]) + 1
         /\ received'[s][Len(received'[s])].type = "malformed")
        => /\ sent' = [sent EXCEPT ![s] = Append(@,
                    [audioData |-> "undefined", sentence |-> "undefined",
                     conversationTone |-> "undefined", fallbackText |-> "undefined",
                     error |-> "An internal error occurred."])]
           /\ readyState' = readyState
           /\ readyState'[s] = "OPEN"
           /\ landmarkSequences' = landmarkSequences
           /\ arrays' = arrays
           /\ waitingClients' = waitingClients
           /\ issued' = issued
           /\ store' = store /\ ttl' = ttl
           /\ redisQueue' = redisQueue
           /\ bus' = bus]_vars

C15_Witness ==
    \E s, o \in Sessions :
        /\ s # o
        /\ readyState[s] = "OPEN" /\ readyState[o] = "OPEN"
        /\ Len(received[s]) = 2
        /\ received[s][1].type = "signing_data"
        /\ received[s][2].type = "malformed"
        /\ arrays[landmarkSequences[s]] = <<received[s][1].sequence>>
        /\ Len(sent[s]) = 1
        /\ sent[s][1].error = "An internal error occurred."
        /\ sent[o] = << >>

---------------------------------------------------------------------------
(* C16: a result or dead-letter message for an identity whose connection   *)
(* has closed writes no frame and throws nothing; the close of a           *)
(* connection leaves its pending store commands, the store, the bus and    *)
(* waitingClients as they are, and a job whose connection closed while its *)
(* handler was suspended is still published.                               *)

C16_ClosedIsNoOp ==
    [][/\ (/\ Consumed(RESULTS_QUEUE) \/ Consumed(DEAD_LETTER_QUEUE)
           /\ lastDelivery'.correlationId \in DOMAIN waitingClients
           /\ readyState[waitingClients[lastDelivery'.correlationId]] = "CLOSED")
          => (sent' = sent /\ uncaught' = uncaught)
       /\ \A s \in Sessions :
            (readyState[s] = "OPEN" /\ readyState'[s] = "CLOSED")
            => /\ redisQueue' = redisQueue
               /\ store' = store /\ ttl' = ttl
               /\ bus' = bus
               /\ waitingClients' = waitingClients
               /\ landmarkSequences' = landmarkSequences /\ arrays' = arrays
       /\ (Replied("expire") /\ readyState[Head(redisQueue).ws] = "CLOSED")
          => /\ Len(bus') = Len(bus) + 1
             /\ bus'[Len(bus')].routingKey = "recognition_task"
             /\ bus'[Len(bus')].correlationId = Head(redisQueue).correlationId
             /\ bus'[Len(bus')].body.landmark_data # << >>]_vars

C16_Witness ==
    /\ lastDelivery.queue = DEAD_LETTER_QUEUE
    /\ lastDelivery.content = "<html>"
    /\ lastDelivery.correlationId = 1
    /\ 1 \in DOMAIN waitingClients
    /\ readyState[waitingClients[1]] = "CLOSED"
    /\ Jobs(1) # {}
    /\ sent[waitingClients[1]] = << >>
    /\ uncaught = 0

---------------------------------------------------------------------------
(* C17: a notification is acknowledged only in the last step of its        *)
(* handler.  While the handler is suspended on hGetAll or del the          *)
(* notification is unacknowledged; the step that acknowledges it is the    *)
(* one that ends its handler, and when that step is the del reply the      *)
(* forward is already on the bus and the record is gone.                   *)

AckedNow(tag) ==
    /\ tag \in DOMAIN ackCount'
    /\ ackCount'[tag] > (IF tag \in DOMAIN ackCount THEN ackCount[tag] ELSE 0)

C17_AckAfterProcessing ==
    [][/\ \A i \in 1..Len(redisQueue') :
            redisQueue'[i].op \in {"hGetAll", "del"} =>
                /\ redisQueue'[i].tag \in DOMAIN ackCount'
                /\ ackCount'[redisQueue'[i].tag] = 0
       /\ \A tag \in 1..deliveryTag :
            AckedNow(tag) =>
                /\ ackCount'[tag] = 1
                /\ redisQueue # << >>
                /\ Head(redisQueue).tag = tag
                /\ redisQueue' = Tail(redisQueue)
                /\ (Head(redisQueue).op = "hGetAll" /\ redisUp) =>
                        /\ ~ ({"raw_gloss", "dominant_emotion"} \subseteq
                                DOMAIN HGetAll(store, <<"job", Head(redisQueue).correlationId>>))
                        /\ bus' = bus /\ store' = store
                /\ (Head(redisQueue).op = "del" /\ redisUp) =>
                        /\ Forwards(Head(redisQueue).correlationId) # {}
                        /\ <<"job", Head(redisQueue).correlationId>> \notin DOMAIN store']_vars

C17_Witness ==
    \E id \in CorrelationIds :
        /\ console = Log("Published to Gemini and cleaned up Redis", id)
        /\ lastDelivery.queue = NOTIFICATION_QUEUE
        /\ lastDelivery.tag \in DOMAIN ackCount
        /\ ackCount[lastDelivery.tag] = 1
        /\ Forwards(id) # {}
        /\ <<"job", id>> \notin DOMAIN store
        /\ redisQueue = << >>

---------------------------------------------------------------------------
(* C18: when the handler of an end_of_sentence frame ends without having   *)
(* published its job, because hSet or expire was rejected or publish       *)
(* threw, it writes the error frame to the connection the frame came from, *)
(* if that connection is open.                                             *)

(* This step ends the oldest suspended job handler without a publication *)
SubmissionFails ==
    /\ redisQueue # << >>
    /\ Head(redisQueue).op \in {"hSet", "expire"}
    /\ redisQueue' = Tail(redisQueue)
    /\ bus' = bus

C18_FailureIsReported ==
    [][(SubmissionFails /\ readyState[Head(redisQueue).ws] = "OPEN")
       => sent' = [sent EXCEPT ![Head(redisQueue).ws] = Append(@,
                    [audioData |-> "undefined", sentence |-> "undefined",
                     conversationTone |-> "undefined", fallbackText |-> "undefined",
                     error |-> "An internal error occurred."])]]_vars

C18_Witness ==
    \E s \in Sessions :
        /\ ~redisUp
        /\ Len(received[s]) = 2
        /\ received[s][1].type = "signing_data"
        /\ received[s][2].type = "end_of_sentence"
        /\ Len(issued) = 1
        /\ redisQueue = << >>
        /\ bus = << >>
        /\ Len(sent[s]) = 1
        /\ sent[s][1].error = "An internal error occurred."

---------------------------------------------------------------------------
(* C19: a submission that failed leaves no trace: an identity whose        *)
(* handler has ended without a publication has no message on the bus and   *)
(* no entry in waitingClients.                                             *)

Suspended(correlationId) ==
    \E i \in 1..Len(redisQueue) : redisQueue[i].correlationId = correlationId

C19_FailedLeavesNoEntry ==
    \A id \in 1..Len(issued) :
        (~Suspended(id) /\ Jobs(id) = {}) => id \notin DOMAIN waitingClients

---------------------------------------------------------------------------
(* C20: an identity gets at most one terminal frame.  A result or          *)
(* dead-letter step that writes a frame writes exactly one, for an         *)
(* identity that is registered before the step and not after it; an        *)
(* identity once removed from waitingClients never returns to it; so each  *)
(* connection has received as many frames as identities of its own have    *)
(* been removed, whatever duplicates or mixtures of messages arrive.       *)

Terminated(s) ==
    {id \in 1..Len(issued) : issued[id] = s /\ id \notin DOMAIN waitingClients}

C20_AtMostOneTerminal ==
    [][/\ (Consumed(RESULTS_QUEUE) \/ Consumed(DEAD_LETTER_QUEUE)) =>
            \A s \in Sessions :
                sent'[s] # sent[s] =>
                    /\ Len(sent'[s]) = Len(sent[s]) + 1
                    /\ lastDelivery'.correlationId \in DOMAIN waitingClients
                    /\ waitingClients[lastDelivery'.correlationId] = s
                    /\ lastDelivery'.correlationId \notin DOMAIN waitingClients'
       /\ \A id \in 1..Len(issued) :
            id \notin DOMAIN waitingClients => id \notin DOMAIN waitingClients'
       /\ \A s \in Sessions : Len(sent'[s]) = Cardinality(Terminated(s)')]_vars

C20_Witness ==
    /\ lastDelivery.queue = DEAD_LETTER_QUEUE
    /\ lastDelivery.correlationId = 1
    /\ JSONParse(lastDelivery.content).ok
    /\ console = Log("Received final result for job", 1)
    /\ 1 \notin DOMAIN waitingClients
    /\ readyState[issued[1]] = "OPEN"
    /\ Len(sent[issued[1]]) = 1
    /\ sent[issued[1]][1].audioData = "UklGRg=="

---------------------------------------------------------------------------
(* C21: every message handed to a consumer is acknowledged exactly once:   *)
(* a result or dead-letter message in the step that delivers it, whether   *)
(* its identity is unknown, its connection closed or its body unparsable;  *)
(* a notification when its handler ends, also when hGetAll or del was      *)
(* rejected.  Until its handler ends a notification is unacknowledged, and *)
(* no message is acknowledged a second time.                               *)

HandlerSuspended(tag) ==
    \E i \in 1..Len(redisQueue) : redisQueue[i].tag = tag

---------------------------------------------------------------------------
(* C22: when onmessage receives the frame the gateway writes for a         *)
(* dead-letter message, with a fallbackText and conversationTone 'Error',  *)
(* it sets a notification whose message is the fallbackText.               *)

C22_FailureIsShown ==
    [][(/\ lastHandler' = "onmessage"
        /\ lastData'.fallbackText # "undefined"
        /\ lastData'.conversationTone = "Error")
       => notification'.message = lastData'.fallbackText]_vars

---------------------------------------------------------------------------
(* C23: while the mode is 'manual', isRecording changes only in            *)
(* handleManualStart and handleManualStop, and an end_of_sentence frame is *)
(* sent only by handleManualStop, also when a start or stop timer armed in *)
(* auto mode fires after the switch to manual.                             *)

C23_ManualIsManual ==
    [][(mode = "manual" /\ mode' = "manual") =>
        /\ isRecording' # isRecording =>
                lastHandler' \in {"handleManualStart", "handleManualStop"}
        /\ (/\ Len(clientSent') = Len(clientSent) + 1
            /\ clientSent'[Len(clientSent')].type = "end_of_sentence")
           => lastHandler' = "handleManualStop"]_vars

---------------------------------------------------------------------------
(* C24: once the cleanup of the WebSocket effect has run and closed the    *)
(* socket, the client makes no further connection attempt.                 *)

C24_NoAttemptAfterCleanup ==
    [][~mounted => (attempts' = attempts /\ wsRef' # "CONNECTING")]_vars

====
